---- MODULE Spec2Model ----
(***************************************************************************)
(* pgen: a YAML schema description is parsed in two passes (enums, then    *)
(* tables) into Metadata, which render turns into DDL text.                *)
(*                                                                         *)
(* A decoded YAML value (Go interface{}) is a record with a dynamic kind k *)
(* and one slot per Go type the program asserts it to; a failed type       *)
(* assertion is the Go panic.  A yaml.MapSlice is a sequence of            *)
(* [key, val] items.  The gen buffer is the sequence of strings written    *)
(* to it, one element per P/Pf/Ln call.                                    *)
(***************************************************************************)
EXTENDS Integers, Sequences, FiniteSets, TLC

VARIABLES raw, pc, i, j, Enums, Tables, err, buf, stdout, exitCode

vars == <<raw, pc, i, j, Enums, Tables, err, buf, stdout, exitCode>>

(***************************************************************************)
(* Bounds of the input documents.                                          *)
(***************************************************************************)
MaxEntries == 3
MaxAttrs == 2

(***************************************************************************)
(* Decoded YAML values.                                                    *)
(***************************************************************************)
NilV == [k |-> "nil", n |-> 0, s |-> "", b |-> FALSE,
         strs |-> <<>>, flds |-> <<>>, idxs |-> <<>>]
StrV(x) == [NilV EXCEPT !.k = "string", !.s = x]
IntV(x) == [NilV EXCEPT !.k = "int", !.n = x]
BoolV(x) == [NilV EXCEPT !.k = "bool", !.b = x]
FloatV(x) == [NilV EXCEPT !.k = "float", !.s = x]
StrsV(x) == [NilV EXCEPT !.k = "list", !.strs = x]
FldsV(x) == [NilV EXCEPT !.k = "list", !.flds = x]
IdxsV(x) == [NilV EXCEPT !.k = "list", !.idxs = x]
Item(key, val) == [key |-> key, val |-> val]

DataTypeInteger == "integer"
DataTypeBigint == "bigint"
DataTypeVarchar == "varchar"
DataTypeBool == "bool"
DataTypeTime == "time"
DataTypeTimestamptz == "timestamptz"
DataTypeSerial == "serial"
DataTypeDouble == "float8"
DataTypeText == "text"

\* The runtime panic of a failed type assertion x.(T).
Panic == "panic: interface conversion"

Type(t, isEnum) == [err |-> "", T |-> t, IsEnum |-> isEnum]

\* parseDataType with the loop over the enums returning at its first
\* iteration: only the first enumeration is compared.
parseDataTypeFirstEnum(t, enums) ==
  CASE t = "i32" -> Type(DataTypeInteger, FALSE)
    [] t = "i64" -> Type(DataTypeBigint, FALSE)
    [] t = "str" -> Type(DataTypeVarchar, FALSE)
    [] t = "bool" -> Type(DataTypeBool, FALSE)
    [] t = "t" -> Type(DataTypeTime, FALSE)
    [] t = "tsz" -> Type(DataTypeTimestamptz, FALSE)
    [] t = "double" -> Type(DataTypeDouble, FALSE)
    [] t \in {"text", "serial", "jsonb"} -> Type(t, FALSE)
    [] OTHER ->
        IF Len(enums) > 0 /\ t = enums[1].Name
          THEN Type(t, TRUE)
          ELSE [err |-> "invalid data type: " \o t, T |-> "", IsEnum |-> FALSE]

parseDataType(t, enums) ==
  CASE t = "i32" -> Type(DataTypeInteger, FALSE)
    [] t = "i64" -> Type(DataTypeBigint, FALSE)
    [] t = "str" -> Type(DataTypeVarchar, FALSE)
    [] t = "bool" -> Type(DataTypeBool, FALSE)
    [] t = "t" -> Type(DataTypeTime, FALSE)
    [] t = "tsz" -> Type(DataTypeTimestamptz, FALSE)
    [] t = "double" -> Type(DataTypeDouble, FALSE)
    [] t \in {"text", "serial", "jsonb"} -> Type(t, FALSE)
    [] OTHER ->
        IF \E e \in 1..Len(enums) : t = enums[e].Name
          THEN Type(t, TRUE)
          ELSE [err |-> "invalid data type: " \o t, T |-> "", IsEnum |-> FALSE]

Field(name, t) ==
  [Name |-> name, T |-> t.T, IsEnum |-> t.IsEnum, Comment |-> "",
   Nullable |-> FALSE, Default |-> NilV, Size |-> 0, PK |-> FALSE]

FieldErr(f, e) == [err |-> e, f |-> f]
FieldOk(f) == [err |-> "", f |-> f]

\* case "default" of the attribute switch
DefaultAttr(f, item) ==
  CASE f.T \in {DataTypeVarchar, DataTypeInteger, DataTypeBigint, DataTypeBool,
                DataTypeDouble, DataTypeText} ->
         FieldOk([f EXCEPT !.Default = item.val])
    [] f.T = DataTypeTimestamptz ->
         IF item.val.k # "string" THEN FieldErr(f, Panic)
         ELSE IF item.val.s # "now"
           THEN FieldErr(f, f.Name \o ": invalid default value '" \o item.val.s \o "'")
           ELSE FieldOk([f EXCEPT !.Default = StrV("current_timestamp")])
    [] OTHER ->
         IF ~f.IsEnum
           THEN FieldErr(f, f.Name \o ": data type '" \o f.T
                            \o "' can not have 'default' attribute")
           ELSE FieldOk(f)

\* case "size" of the attribute switch
SizeAttr(f, item) ==
  IF f.T # DataTypeVarchar
    THEN FieldErr(f, f.Name \o ": data type '" \o f.T
                     \o "' can not have 'size' attribute")
  ELSE IF item.val.k # "int" THEN FieldErr(f, Panic)
  ELSE FieldOk([f EXCEPT !.Size = item.val.n])

\* case "pk" of the attribute switch
PkAttr(f, item) ==
  IF f.T \notin {DataTypeInteger, DataTypeBigint, DataTypeSerial}
    THEN FieldErr(f, f.Name \o ": primary key must be integer, bigint, serial")
  ELSE IF item.val.k # "bool" THEN FieldErr(f, Panic)
  ELSE FieldOk([f EXCEPT !.PK = item.val.b])

\* One iteration of the loop over m[1:].
FieldAttr(f, item) ==
  CASE item.key = "default" -> DefaultAttr(f, item)
    [] item.key = "size" -> SizeAttr(f, item)
    [] item.key = "comment" ->
         IF item.val.k # "string" THEN FieldErr(f, Panic)
         ELSE FieldOk([f EXCEPT !.Comment = item.val.s])
    [] item.key = "nullable" ->
         IF item.val.k # "bool" THEN FieldErr(f, Panic)
         ELSE FieldOk([f EXCEPT !.Nullable = item.val.b])
    [] item.key = "pk" -> PkAttr(f, item)
    [] OTHER -> FieldErr(f, f.Name \o ": invalid attribute: " \o item.key)

\* The loop over m[1:] from the state r after the items before `item`.
FieldAttrNext(r, item) == IF r.err # "" THEN r ELSE FieldAttr(r.f, item)

FieldAttrs(f, items) ==
  LET at[n \in 0..Len(items)] ==
        IF n = 0 THEN FieldOk(f) ELSE FieldAttrNext(at[n - 1], items[n])
  IN at[Len(items)]

\* The check of the varchar size after the attribute loop.
SizeMissing(f) == f.T = DataTypeVarchar /\ f.Size = 0

\* The primary key check with its nullable test negated.
PkNullableNegated(f) == f.PK /\ ~f.Nullable

\* The check of the primary key after the attribute loop.
PkNullable(f) == f.PK /\ f.Nullable

FieldValidate(f) ==
  IF SizeMissing(f)
    THEN FieldErr(f, f.Name \o " should have size. if size is not a consideration, 'text' should be used")
  ELSE IF PkNullable(f)
    THEN FieldErr(f, f.Name \o ": primary key can not be nullable")
  ELSE FieldOk(f)

\* parseField after the attribute loop ended in r.
FieldFinish(r) == IF r.err # "" THEN r ELSE FieldValidate(r.f)

\* parseField after parseDataType returned t.
FieldOfType(m, t) ==
  IF t.err # "" THEN [err |-> t.err]
  ELSE FieldFinish(FieldAttrs(Field(m[1].key, t), Tail(m)))

parseField(m, enums) ==
  IF m[1].val.k # "string" THEN [err |-> Panic]
  ELSE FieldOfType(m, parseDataType(m[1].val.s, enums))

\* One iteration of the loop over the enum entry's attributes.
EnumAttr(e, attr) ==
  CASE attr.key = "comment" ->
         IF attr.val.k # "string" THEN [err |-> Panic, e |-> e]
         ELSE [err |-> "", e |-> [e EXCEPT !.Comment = attr.val.s]]
    [] attr.key = "value" ->
         IF attr.val.k = "nil"
           THEN [err |-> "enum " \o e.Name \o " should have at least one value", e |-> e]
         ELSE IF attr.val.k # "list" THEN [err |-> Panic, e |-> e]
         ELSE [err |-> "", e |-> [e EXCEPT !.Values = e.Values \o attr.val.strs]]
    [] OTHER -> [err |-> "", e |-> e]

EnumAttrNext(r, attr) == IF r.err # "" THEN r ELSE EnumAttr(r.e, attr)

\* The loop over the enum entry's attributes.
EnumAttrs(e, attrs) ==
  LET at[n \in 0..Len(attrs)] ==
        IF n = 0 THEN [err |-> "", e |-> e] ELSE EnumAttrNext(at[n - 1], attrs[n])
  IN at[Len(attrs)]

parseEnum(s) ==
  EnumAttrs([Name |-> s.key, Comment |-> "", Values |-> <<>>], s.attrs)

parseIndexes(in) ==
  IF in.k = "nil" THEN <<>>
  ELSE in.idxs

\* t.Fields = append(t.Fields, f), or the error parseField returned.
AppendField(t, f) ==
  IF f.err # "" THEN [err |-> f.err, t |-> t]
  ELSE [err |-> "", t |-> [t EXCEPT !.Fields = Append(t.Fields, f.f)]]

FieldsNext(r, fld, enums) ==
  IF r.err # "" THEN r ELSE AppendField(r.t, parseField(fld, enums))

\* The loop over the column specs of a "fields" attribute.
ParseFields(t, flds, enums) ==
  LET at[n \in 0..Len(flds)] ==
        IF n = 0 THEN [err |-> "", t |-> t] ELSE FieldsNext(at[n - 1], flds[n], enums)
  IN at[Len(flds)]

\* One iteration of the loop over the table entry's attributes.
TableAttr(t, attr, enums) ==
  CASE attr.key = "db" ->
         IF attr.val.k # "string" THEN [err |-> Panic, t |-> t]
         ELSE [err |-> "", t |-> [t EXCEPT !.DB = attr.val.s]]
    [] attr.key = "comment" ->
         IF attr.val.k # "string" THEN [err |-> Panic, t |-> t]
         ELSE [err |-> "", t |-> [t EXCEPT !.Comment = attr.val.s]]
    [] attr.key = "fields" ->
         IF attr.val.k = "nil" THEN [err |-> "", t |-> t]
         ELSE IF attr.val.k # "list" THEN [err |-> Panic, t |-> t]
         ELSE ParseFields(t, attr.val.flds, enums)
    [] attr.key = "uniques" ->
         IF attr.val.k \notin {"nil", "list"} THEN [err |-> Panic, t |-> t]
         ELSE [err |-> "", t |-> [t EXCEPT !.Uniques = parseIndexes(attr.val)]]
    [] attr.key = "indexes" ->
         IF attr.val.k \notin {"nil", "list"} THEN [err |-> Panic, t |-> t]
         ELSE [err |-> "", t |-> [t EXCEPT !.Indexes = parseIndexes(attr.val)]]
    [] OTHER -> [err |-> "", t |-> t]

TableAttrNext(r, attr, enums) ==
  IF r.err # "" THEN r ELSE TableAttr(r.t, attr, enums)

\* The loop over the table entry's attributes.
TableAttrs(t, attrs, enums) ==
  LET at[n \in 0..Len(attrs)] ==
        IF n = 0 THEN [err |-> "", t |-> t] ELSE TableAttrNext(at[n - 1], attrs[n], enums)
  IN at[Len(attrs)]

\* The validation of parseTable after the attribute loop ended in r.
TableValidate(r) ==
  IF r.err # "" THEN r
  ELSE IF r.t.DB = "" THEN [err |-> r.t.Name \o ": db should be provided", t |-> r.t]
  ELSE r

parseTable(s, enums) ==
  TableValidate(TableAttrs([DB |-> "", Name |-> s.key, Comment |-> "", Fields |-> <<>>,
                            Indexes |-> <<>>, Uniques |-> <<>>], s.attrs, enums))

\* The enum put in front of Data.Enums instead of appended.
AppendEnumInFront(enums, r) ==
  IF r.err # "" THEN [err |-> r.err, Enums |-> enums]
  ELSE [err |-> "", Enums |-> <<r.e>> \o enums]

\* p.Data.Enums = append(p.Data.Enums, e), or the error parseEnum returned.
AppendEnum(enums, r) ==
  IF r.err # "" THEN [err |-> r.err, Enums |-> enums]
  ELSE [err |-> "", Enums |-> Append(enums, r.e)]

\* The callback of the first pass: the new value of Data.Enums, or an error.
EnumCallback(t, s, enums) ==
  IF t # "enum" THEN [err |-> "", Enums |-> enums]
  ELSE AppendEnum(enums, parseEnum(s))

\* p.Data.Tables = append(p.Data.Tables, table), or the error parseTable returned.
AppendTable(tables, r) ==
  IF r.err # "" THEN [err |-> r.err, Tables |-> tables]
  ELSE [err |-> "", Tables |-> Append(tables, r.t)]

\* The second callback taking every entry that is not an enum for a table.
TableCallbackNotEnum(t, s, enums, tables) ==
  IF t = "enum" THEN [err |-> "", Tables |-> tables]
  ELSE AppendTable(tables, parseTable(s, enums))

\* The callback of the second pass: the new value of Data.Tables, or an error.
TableCallback(t, s, enums, tables) ==
  IF t # "table" THEN [err |-> "", Tables |-> tables]
  ELSE AppendTable(tables, parseTable(s, enums))

\* The structural check the inner parse closure makes of one entry before it
\* calls the callback: "" to call it, "skip" to continue, or the error.
EntryCheck(s) ==
  IF Len(s.attrs) = 0 THEN "skip"
  ELSE IF s.attrs[1].key # "type"
    THEN s.key \o ": the first attribute must be 'type'"
  ELSE IF s.attrs[1].val.k # "string" THEN Panic
  ELSE ""

\* A step that goes on after an error instead of returning it.
AfterIgnoringError(e, next) == next

\* Where control goes when a step ends with error e: on to `next`, to main's
\* exitIfErr with the error parse returned, or out of the process on a panic.
After(e, next) ==
  IF e = "" THEN next ELSE IF e = Panic THEN "panicked" ELSE "exitIfErr"

(***************************************************************************)
(* render: the pieces appended to the gen buffer.                          *)
(***************************************************************************)
\* strings.Join
RECURSIVE Join(_, _)
Join(strs, sep) ==
  IF Len(strs) = 0 THEN ""
  ELSE IF Len(strs) = 1 THEN strs[1]
  ELSE strs[1] \o sep \o Join(Tail(strs), sep)

\* The loop over e.Values; n is the 1-based index of the first value of vals.
RECURSIVE ValuePieces(_, _)
ValuePieces(vals, n) ==
  IF Len(vals) = 0 THEN <<>>
  ELSE (IF n > 1 THEN <<", ">> ELSE <<>>) \o <<"'" \o Head(vals) \o "'">>
       \o ValuePieces(Tail(vals), n + 1)

\* The blank line render puts before entry idx (1-based) of a loop.
Separator(idx) == IF idx > 1 THEN <<"\n">> ELSE <<>>

\* One iteration of the loop over data.Enums that emits (e has values).
EnumPieces(idx, e) ==
  Separator(idx)
  \o <<Join(<<"create type", e.Name, "as enum(">>, " ")>>
  \o ValuePieces(e.Values, 1)
  \o <<");", "\n">>
  \o (IF e.Comment # ""
        THEN <<"comment on type " \o e.Name \o " is '" \o e.Comment \o "';", "\n">>
        ELSE <<>>)

\* The size clause of a column.
SizeClause(f) ==
  IF f.Size > 0 /\ f.T = DataTypeVarchar
    THEN <<"(" \o ToString(f.Size) \o ")">>
    ELSE <<>>

\* The default clause of a column: its pieces, or the panic of the assertion.
DefaultClause(f) ==
  IF f.Default.k = "nil" THEN [err |-> "", out |-> <<>>]
  ELSE CASE f.T = DataTypeVarchar ->
              IF f.Default.k # "string" THEN [err |-> Panic, out |-> <<>>]
              ELSE [err |-> "", out |-> <<" default '" \o f.Default.s \o "'">>]
         [] f.T = DataTypeTimestamptz ->
              IF f.Default.k # "string" THEN [err |-> Panic, out |-> <<>>]
              ELSE [err |-> "", out |-> <<" default " \o f.Default.s>>]
         [] f.T \in {DataTypeInteger, DataTypeBigint} ->
              IF f.Default.k # "int" THEN [err |-> Panic, out |-> <<>>]
              ELSE [err |-> "", out |-> <<" default " \o ToString(f.Default.n)>>]
         [] f.T = DataTypeBool ->
              IF f.Default.k # "bool" THEN [err |-> Panic, out |-> <<>>]
              ELSE [err |-> "",
                    out |-> <<" default " \o (IF f.Default.b THEN "true" ELSE "false")>>]
         [] OTHER ->
              IF f.IsEnum
                THEN IF f.Default.k # "string" THEN [err |-> Panic, out |-> <<>>]
                     ELSE [err |-> "", out |-> <<" default '" \o f.Default.s \o "'">>]
                ELSE [err |-> "", out |-> <<>>]

\* The "not null" clause written for a primary key too.
NotNullClauseForPk(f) == IF ~f.Nullable THEN <<" not null">> ELSE <<>>

\* The "not null" clause of a column.
NotNullClause(f) == IF ~f.Nullable /\ ~f.PK THEN <<" not null">> ELSE <<>>

\* The "primary key" clause of a column.
PrimaryKeyClause(f) == IF f.PK THEN <<" primary key">> ELSE <<>>

\* One iteration of the loop over t.Fields; last: f is the table's last field.
Column(f, last) ==
  LET d == DefaultClause(f)
  IN [err |-> d.err,
      out |-> <<Join(<<" ", f.Name, f.T>>, " ")>>
              \o SizeClause(f) \o d.out \o NotNullClause(f) \o PrimaryKeyClause(f)
              \o (IF last THEN <<>> ELSE <<",">>) \o <<"\n">>]

RECURSIVE UniquePieces(_, _)
UniquePieces(t, idxs) ==
  IF Len(idxs) = 0 THEN <<>>
  ELSE <<"create unique index " \o t.Name \o "_" \o Join(Head(idxs), "_") \o "_key on "
         \o t.Name \o " (" \o Join(Head(idxs), ", ") \o ");", "\n">>
       \o UniquePieces(t, Tail(idxs))

RECURSIVE IndexPieces(_, _)
IndexPieces(t, idxs) ==
  IF Len(idxs) = 0 THEN <<>>
  ELSE <<"create index " \o t.Name \o "_" \o Join(Head(idxs), "_") \o "_idx on "
         \o t.Name \o " (" \o Join(Head(idxs), ", ") \o ");", "\n">>
       \o IndexPieces(t, Tail(idxs))

RECURSIVE FieldComments(_, _)
FieldComments(t, flds) ==
  IF Len(flds) = 0 THEN <<>>
  ELSE (IF Head(flds).Comment # ""
          THEN <<"comment on column " \o t.Name \o "." \o Head(flds).Name \o " is '"
                 \o Head(flds).Comment \o "';", "\n">>
          ELSE <<>>)
       \o FieldComments(t, Tail(flds))

\* What render writes for a table after its columns.
TableTail(t) ==
  <<");", "\n">>
  \o UniquePieces(t, t.Uniques)
  \o IndexPieces(t, t.Indexes)
  \o (IF t.Comment # ""
        THEN <<"comment on table " \o t.Name \o " is '" \o t.Comment \o "';", "\n">>
        ELSE <<>>)
  \o FieldComments(t, t.Fields)

(***************************************************************************)
(* The run of main from the decoded document on.                           *)
(***************************************************************************)
\* One iteration of the inner parse closure with the callback of the first
\* pass, on entry s after its structural check c.
EnumEntry(s, c, enums) ==
  IF c = "skip" THEN [err |-> "", Enums |-> enums]
  ELSE IF c # "" THEN [err |-> c, Enums |-> enums]
  ELSE EnumCallback(s.attrs[1].val.s, s, enums)

\* The same with the callback of the second pass.
TableEntry(s, c, enums, tables) ==
  IF c = "skip" THEN [err |-> "", Tables |-> tables]
  ELSE IF c # "" THEN [err |-> c, Tables |-> tables]
  ELSE TableCallback(s.attrs[1].val.s, s, enums, tables)

\* One iteration of the first pass over raw.
Pass1Step ==
  /\ pc = "pass1"
  /\ i <= Len(raw)
  /\ LET r == EnumEntry(raw[i], EntryCheck(raw[i]), Enums)
     IN /\ Enums' = r.Enums
        /\ err' = r.err
        /\ pc' = After(r.err, "pass1")
        /\ i' = IF r.err = "" THEN i + 1 ELSE i
  /\ UNCHANGED <<raw, j, Tables, buf, stdout, exitCode>>

\* The first pass returns nil; the second starts.
Pass1End ==
  /\ pc = "pass1"
  /\ i > Len(raw)
  /\ pc' = "pass2"
  /\ i' = 1
  /\ UNCHANGED <<raw, j, Enums, Tables, err, buf, stdout, exitCode>>

\* One iteration of the second pass over raw.
Pass2Step ==
  /\ pc = "pass2"
  /\ i <= Len(raw)
  /\ LET r == TableEntry(raw[i], EntryCheck(raw[i]), Enums, Tables)
     IN /\ Tables' = r.Tables
        /\ err' = r.err
        /\ pc' = After(r.err, "pass2")
        /\ i' = IF r.err = "" THEN i + 1 ELSE i
  /\ UNCHANGED <<raw, j, Enums, buf, stdout, exitCode>>

\* parse returns nil, exitIfErr(nil) returns, and render starts with its headers.
RenderHeader ==
  /\ pc = "pass2"
  /\ i > Len(raw)
  /\ buf' = <<"-- Auto generated by pgen, DO NOT MODIFY.", "\n", "\n",
              "-- Enums", "\n", "\n">>
  /\ pc' = "enums"
  /\ i' = 1
  /\ UNCHANGED <<raw, j, Enums, Tables, err, stdout, exitCode>>

\* exitIfErr with the error parse returned.
ExitIfErr ==
  /\ pc = "exitIfErr"
  /\ pc' = "exited"
  /\ exitCode' = 1
  /\ UNCHANGED <<raw, i, j, Enums, Tables, err, buf, stdout>>

\* One iteration of the loop over data.Enums.
RenderEnum ==
  /\ pc = "enums"
  /\ i <= Len(Enums)
  /\ buf' = IF Len(Enums[i].Values) = 0 THEN buf ELSE buf \o EnumPieces(i, Enums[i])
  /\ i' = i + 1
  /\ UNCHANGED <<raw, pc, j, Enums, Tables, err, stdout, exitCode>>

\* The header between the two loops of render.
RenderTablesHeader ==
  /\ pc = "enums"
  /\ i > Len(Enums)
  /\ buf' = buf \o <<"\n", "-- Tables", "\n", "\n">>
  /\ pc' = "tables"
  /\ i' = 1
  /\ UNCHANGED <<raw, j, Enums, Tables, err, stdout, exitCode>>

\* The head of one iteration of the loop over data.Tables: the skip of a
\* table with no fields, or the separator and the create table line.
RenderTableOpen ==
  /\ pc = "tables"
  /\ i <= Len(Tables)
  /\ IF Len(Tables[i].Fields) = 0
       THEN /\ i' = i + 1
            /\ UNCHANGED <<pc, j, buf>>
       ELSE /\ buf' = buf \o Separator(i)
                      \o <<Join(<<"create table if not exists", Tables[i].Name, "(">>, " "),
                           "\n">>
            /\ pc' = "columns"
            /\ j' = 1
            /\ i' = i
  /\ UNCHANGED <<raw, Enums, Tables, err, stdout, exitCode>>

\* One iteration of the loop over t.Fields.
RenderColumn ==
  /\ pc = "columns"
  /\ j <= Len(Tables[i].Fields)
  /\ LET c == Column(Tables[i].Fields[j], j = Len(Tables[i].Fields))
     IN /\ buf' = IF c.err = "" THEN buf \o c.out ELSE buf
        /\ err' = c.err
        /\ pc' = After(c.err, "columns")
        /\ j' = IF c.err = "" THEN j + 1 ELSE j
  /\ UNCHANGED <<raw, i, Enums, Tables, stdout, exitCode>>

\* The rest of the iteration over data.Tables, after the columns.
RenderTableClose ==
  /\ pc = "columns"
  /\ j > Len(Tables[i].Fields)
  /\ buf' = buf \o TableTail(Tables[i])
  /\ pc' = "tables"
  /\ i' = i + 1
  /\ UNCHANGED <<raw, j, Enums, Tables, err, stdout, exitCode>>

\* g.Write(w): the buffer goes to the output in one write, and main returns.
Write ==
  /\ pc = "tables"
  /\ i > Len(Tables)
  /\ stdout' = buf
  /\ pc' = "done"
  /\ exitCode' = 0
  /\ UNCHANGED <<raw, i, j, Enums, Tables, err, buf>>

Next ==
  \/ Pass1Step
  \/ Pass1End
  \/ Pass2Step
  \/ ExitIfErr
  \/ RenderHeader
  \/ RenderEnum
  \/ RenderTablesHeader
  \/ RenderTableOpen
  \/ RenderColumn
  \/ RenderTableClose
  \/ Write

(***************************************************************************)
(* The documents.  A YAML mapping has unique keys, so the entries of a     *)
(* document have distinct names and the attributes of a column distinct    *)
(* keys.                                                                   *)
(***************************************************************************)
Entry(key, attrs) == [key |-> key, attrs |-> attrs]
TypeItem(t) == Item("type", StrV(t))
Col(name, token, attrs) == <<Item(name, StrV(token))>> \o attrs

EnumEntries ==
  { Entry("color", <<TypeItem("enum"), Item("value", StrsV(<<"red", "green">>))>>),
    Entry("mood", <<TypeItem("enum"), Item("comment", StrV("how")),
                    Item("value", StrsV(<<"ok">>))>>),
    Entry("void", <<TypeItem("enum")>>),
    Entry("none", <<TypeItem("enum"), Item("value", StrsV(<<>>))>>),
    Entry("null", <<TypeItem("enum"), Item("value", NilV)>>) }

TableEntries ==
  { Entry("users", <<TypeItem("table"), Item("db", StrV("main")),
                     Item("fields", FldsV(<<Col("id", "i32", <<Item("pk", BoolV(TRUE))>>),
                                            Col("c", "color", <<>>)>>))>>),
    Entry("logs", <<TypeItem("table"), Item("db", StrV("main")),
                    Item("comment", StrV("log")),
                    Item("fields", FldsV(<<Col("m", "mood",
                                               <<Item("nullable", BoolV(TRUE)),
                                                 Item("comment", StrV("m"))>>)>>)),
                    Item("uniques", IdxsV(<<<<"m", "at">>>>)),
                    Item("indexes", IdxsV(<<<<"m">>>>))>>),
    Entry("items", <<TypeItem("table"), Item("db", StrV("main")),
                     Item("fields", FldsV(<<Col("id", "serial", <<Item("pk", BoolV(TRUE))>>),
                                            Col("name", "str",
                                                <<Item("size", IntV(64))>>)>>))>>),
    Entry("bare", <<TypeItem("table"), Item("db", StrV("main"))>>),
    Entry("nullf", <<TypeItem("table"), Item("db", StrV("main")),
                     Item("fields", NilV)>>),
    Entry("nodb", <<TypeItem("table"),
                    Item("fields", FldsV(<<Col("id", "i64", <<>>)>>))>>) }

OtherEntries ==
  { Entry("v", <<TypeItem("view")>>),
    Entry("blank", <<>>),
    Entry("bad", <<Item("db", StrV("main"))>>) }

EntryTemplates == EnumEntries \cup TableEntries \cup OtherEntries

Docs ==
  UNION { { d \in [1..n -> EntryTemplates] :
              \A x, y \in 1..n : x # y => d[x].key # d[y].key } :
          n \in 1..MaxEntries }

TypeTokens ==
  {"i32", "i64", "str", "bool", "t", "tsz", "double", "text", "serial", "jsonb",
   "color", "ghost"}

AttrItems ==
  { Item("default", IntV(7)), Item("default", StrV("x")), Item("default", StrV("now")),
    Item("default", BoolV(TRUE)), Item("default", FloatV("1.5")),
    Item("size", IntV(-1)), Item("size", IntV(0)), Item("size", IntV(64)),
    Item("nullable", BoolV(TRUE)), Item("nullable", BoolV(FALSE)),
    Item("pk", BoolV(TRUE)), Item("pk", BoolV(FALSE)),
    Item("comment", StrV("c")), Item("unique", BoolV(TRUE)) }

AttrSeqs ==
  UNION { { a \in [1..n -> AttrItems] :
              \A x, y \in 1..n : x # y => a[x].key # a[y].key } :
          n \in 0..MaxAttrs }

\* One table of one column, declared before the enum its column may name.
FieldDoc(token, attrs) ==
  << Entry("t", <<TypeItem("table"), Item("db", StrV("main")),
                  Item("fields", FldsV(<<Col("f", token, attrs)>>))>>),
     Entry("color", <<TypeItem("enum"), Item("value", StrsV(<<"red", "green">>))>>) >>

FieldDocs == { FieldDoc(token, attrs) : token \in TypeTokens, attrs \in AttrSeqs }

\* main up to the call of parse: the parser holds an empty Metadata.
Start ==
  /\ pc = "pass1"
  /\ i = 1
  /\ j = 1
  /\ Enums = <<>>
  /\ Tables = <<>>
  /\ err = ""
  /\ buf = <<>>
  /\ stdout = <<>>
  /\ exitCode = -1

Init == raw \in Docs /\ Start

InitField == raw \in FieldDocs /\ Start

Spec == Init /\ [][Next]_vars

SpecField == InitField /\ [][Next]_vars

(***************************************************************************)
(* Reading the document: what an entry declares.                           *)
(***************************************************************************)
Declares(s, t) ==
  Len(s.attrs) > 0 /\ s.attrs[1].key = "type" /\ s.attrs[1].val = StrV(t)

IsEnumEntry(s) == Declares(s, "enum")
IsTableEntry(s) == Declares(s, "table")
IsOtherEntry(s) ==
  Len(s.attrs) > 0 /\ s.attrs[1].key = "type" /\ ~IsEnumEntry(s) /\ ~IsTableEntry(s)

Keys(entries) == [n \in 1..Len(entries) |-> entries[n].key]
Names(entities) == [n \in 1..Len(entities) |-> entities[n].Name]

\* The column specs of entry s, over all its "fields" attributes.
ColumnsOf(s) ==
  UNION { {s.attrs[a].val.flds[n] : n \in 1..Len(s.attrs[a].val.flds)} :
          a \in {x \in 1..Len(s.attrs) : s.attrs[x].key = "fields"} }

ParseSucceeded == pc \in {"enums", "tables", "columns", "done"}

(***************************************************************************)
(* C1: two-pass hoisting.  When the second pass runs, every enumeration    *)
(* the document declares, at any position, is in Enums; and no column that *)
(* names a declared enumeration as its type ever fails to resolve.         *)
(***************************************************************************)
C1_Hoisting ==
  /\ pc = "pass2" =>
       \A n \in 1..Len(raw) :
          IsEnumEntry(raw[n]) => \E e \in 1..Len(Enums) : Enums[e].Name = raw[n].key
  /\ \A n, d \in 1..Len(raw) :
       IsTableEntry(raw[n]) /\ IsEnumEntry(raw[d]) =>
         \A m \in ColumnsOf(raw[n]) :
            m[1].val.s = raw[d].key => err # "invalid data type: " \o m[1].val.s

\* A table was built whose column has the type of an enumeration declared
\* after the table.
C1_Witness ==
  \E n, d \in 1..Len(raw), t \in 1..Len(Tables) :
     /\ n < d
     /\ IsTableEntry(raw[n]) /\ IsEnumEntry(raw[d])
     /\ Tables[t].Name = raw[n].key
     /\ \E f \in 1..Len(Tables[t].Fields) :
           Tables[t].Fields[f].IsEnum /\ Tables[t].Fields[f].T = raw[d].key

(***************************************************************************)
(* C5: every enumeration built has at least one value.                     *)
(***************************************************************************)
C5_EnumHasValue ==
  \A e \in 1..Len(Enums) : Len(Enums[e].Values) > 0

(***************************************************************************)
(* C8: enumerations keep their declaration order.  While the first pass    *)
(* runs Enums is the enum entries passed so far, after it Enums is the     *)
(* enum entries of the document in document order, and the create type     *)
(* statements of the output are those of the enumerations with values, in  *)
(* that order.                                                             *)
(***************************************************************************)
CreateType(name) == "create type " \o name \o " as enum("
IsCreateType(piece) == \E n \in 1..Len(raw) : piece = CreateType(raw[n].key)
HasValues(e) == Len(e.Values) > 0

C8_EnumOrder ==
  /\ pc = "pass1" => Names(Enums) = Keys(SelectSeq(SubSeq(raw, 1, i - 1), IsEnumEntry))
  /\ pc \in {"pass2", "enums", "tables", "columns", "done"} =>
       Names(Enums) = Keys(SelectSeq(raw, IsEnumEntry))
  /\ pc = "done" =>
       SelectSeq(stdout, IsCreateType)
         = [n \in 1..Len(SelectSeq(Enums, HasValues)) |->
              CreateType(SelectSeq(Enums, HasValues)[n].Name)]

\* Two enumerations with a table declared between them were rendered.
C8_Witness ==
  /\ pc = "done"
  /\ Len(SelectSeq(stdout, IsCreateType)) >= 2
  /\ \E a, b, c \in 1..Len(raw) :
        /\ a < b /\ b < c
        /\ IsEnumEntry(raw[a]) /\ IsTableEntry(raw[b]) /\ IsEnumEntry(raw[c])
        /\ \E x, y \in 1..Len(stdout) :
              x < y /\ stdout[x] = CreateType(raw[a].key)
                    /\ stdout[y] = CreateType(raw[c].key)

(***************************************************************************)
(* C10: an entry whose type is neither enum nor table is ignored.  parse   *)
(* never fails at such an entry, and when parse succeeds Enums and Tables  *)
(* hold one entity per enum entry and one per table entry, in order, and   *)
(* nothing else.                                                           *)
(***************************************************************************)
C10_OtherIgnored ==
  /\ pc \in {"exitIfErr", "exited", "panicked"} /\ buf = <<>> => ~IsOtherEntry(raw[i])
  /\ ParseSucceeded =>
       /\ Names(Enums) = Keys(SelectSeq(raw, IsEnumEntry))
       /\ Names(Tables) = Keys(SelectSeq(raw, IsTableEntry))

\* parse succeeded on a document with an entry of another type and with
\* entries that were built.
C10_Witness ==
  /\ ParseSucceeded
  /\ \E n \in 1..Len(raw) : IsOtherEntry(raw[n])
  /\ Len(Enums) > 0
  /\ Len(Tables) > 0

(***************************************************************************)
(* C2: a failure aborts the compilation with no partial output.  The step  *)
(* of either pass in which a check or a builder fails leaves Enums and     *)
(* Tables as they were and hands the error to exitIfErr; from then on no   *)
(* entry is built, render does not run (the buffer stays empty) and        *)
(* nothing is written to the output.                                       *)
(***************************************************************************)
ParseFailed == pc \in {"exitIfErr", "exited"}

C2_AbortNoOutput ==
  [][/\ (pc \in {"pass1", "pass2"} /\ err' # "") =>
          /\ pc' \in {"exitIfErr", "panicked"}
          /\ i' = i
          /\ Enums' = Enums /\ Tables' = Tables
          /\ buf' = <<>> /\ stdout' = <<>>
     /\ ParseFailed =>
          /\ pc' = "exited"
          /\ i' = i
          /\ Enums' = Enums /\ Tables' = Tables
          /\ buf' = <<>> /\ stdout' = <<>>]_vars

\* The process exited on an error of an entry that has entries after it,
\* having built an entity before it.
C2_Witness ==
  /\ pc = "exited"
  /\ err # ""
  /\ i < Len(raw)
  /\ Len(Enums) > 0
  /\ stdout = <<>>

(***************************************************************************)
(* C7: in the output every create type statement and every create table    *)
(* statement is preceded by exactly one blank line: the one the section    *)
(* header ends with before the first statement emitted, the separator      *)
(* before each later one, whatever entries were skipped around them.       *)
(***************************************************************************)
CreateTable(name) == "create table if not exists " \o name \o " ("
IsCreate(piece) ==
  \E n \in 1..Len(raw) : piece \in {CreateType(raw[n].key), CreateTable(raw[n].key)}

C7_BlankLines ==
  pc = "done" =>
    \A k \in 1..Len(stdout) :
       IsCreate(stdout[k]) =>
         /\ k > 3
         /\ stdout[k - 1] = "\n"
         /\ stdout[k - 2] = "\n"
         /\ stdout[k - 3] # "\n"

(***************************************************************************)
(* C3: a primary key is never nullable.  No field of a built table has PK  *)
(* and Nullable both true; a table with a column that declares pk: true    *)
(* and nullable: true, in either order, is not built: parse fails (or the  *)
(* process panics on another attribute of the column); and when the column *)
(* has an integer-family type and no other attribute than pk, nullable and *)
(* comment, the error is "primary key can not be nullable".                *)
(***************************************************************************)
DeclaresPkAndNullable(m) ==
  \E x, y \in 2..Len(m) :
     m[x] = Item("pk", BoolV(TRUE)) /\ m[y] = Item("nullable", BoolV(TRUE))

OnlyFlags(m) == \A x \in 2..Len(m) : m[x].key \in {"pk", "nullable", "comment"}

C3_PkNotNullable ==
  /\ \A t \in 1..Len(Tables) : \A f \in 1..Len(Tables[t].Fields) :
        Tables[t].Fields[f].PK => ~Tables[t].Fields[f].Nullable
  /\ \A n \in 1..Len(raw) : \A m \in ColumnsOf(raw[n]) :
        IsTableEntry(raw[n]) /\ DeclaresPkAndNullable(m) =>
          /\ \A t \in 1..Len(Tables) : Tables[t].Name # raw[n].key
          /\ pc \notin {"pass1", "pass2"} => (ParseFailed \/ pc = "panicked")
          /\ (ParseFailed /\ i = n /\ Cardinality(ColumnsOf(raw[n])) = 1
              /\ m[1].val.s \in {"i32", "i64", "serial"} /\ OnlyFlags(m)) =>
                err = m[1].key \o ": primary key can not be nullable"

\* parseField refused a column that declares nullable: true before pk: true.
C3_Witness ==
  /\ pc = "exited"
  /\ err = "f: primary key can not be nullable"
  /\ \E n \in 1..Len(raw) : \E m \in ColumnsOf(raw[n]) :
        \E x, y \in 2..Len(m) :
           x < y /\ m[x] = Item("nullable", BoolV(TRUE)) /\ m[y] = Item("pk", BoolV(TRUE))

(***************************************************************************)
(* C4: every varchar field of a built table has a size above zero.         *)
(***************************************************************************)
C4_SizePositive ==
  \A t \in 1..Len(Tables) : \A f \in 1..Len(Tables[t].Fields) :
     Tables[t].Fields[f].T = DataTypeVarchar => Tables[t].Fields[f].Size > 0

(***************************************************************************)
(* C6: a column declared with a default of the kind its type takes (an     *)
(* integer for i32 and i64, a string for str, text and an enumeration,     *)
(* a boolean for bool, a float for double, now for tsz) is rendered with   *)
(* the default clause of that type carrying the value.                     *)
(***************************************************************************)
NamesEnum(token) == \E n \in 1..Len(raw) : IsEnumEntry(raw[n]) /\ raw[n].key = token

LegalDefault(token, v) ==
  \/ token \in {"i32", "i64"} /\ v.k = "int"
  \/ token \in {"str", "text"} /\ v.k = "string"
  \/ token = "bool" /\ v.k = "bool"
  \/ token = "double" /\ v.k = "float"
  \/ token = "tsz" /\ v = StrV("now")
  \/ NamesEnum(token) /\ v.k = "string"

ExpectedDefault(token, v) ==
  CASE token \in {"i32", "i64"} -> " default " \o ToString(v.n)
    [] token = "bool" -> " default " \o (IF v.b THEN "true" ELSE "false")
    [] token = "double" -> " default " \o v.s
    [] token = "tsz" -> " default current_timestamp"
    [] OTHER -> " default '" \o v.s \o "'"

C6_DefaultRendered ==
  pc = "done" =>
    \A n \in 1..Len(raw) : \A m \in ColumnsOf(raw[n]) : \A x \in 2..Len(m) :
       IsTableEntry(raw[n]) /\ m[x].key = "default" /\ LegalDefault(m[1].val.s, m[x].val) =>
         \E k \in 1..Len(stdout) : stdout[k] = ExpectedDefault(m[1].val.s, m[x].val)

(***************************************************************************)
(* C9: the line render has just written for a column holds " not null"     *)
(* exactly when the field is neither nullable nor the primary key, and     *)
(* " primary key" exactly when it is the primary key, both after the name  *)
(* and type and " not null" never after " primary key".                    *)
(***************************************************************************)
Has(line, piece) == \E k \in 1..Len(line) : line[k] = piece

\* The pieces of the last line of b, a buffer that ends with a newline.
LastLine(b) ==
  LET ends == {k \in 1..(Len(b) - 1) : b[k] = "\n"}
      start == IF ends = {} THEN 0 ELSE CHOOSE k \in ends : \A x \in ends : x <= k
  IN SubSeq(b, start + 1, Len(b) - 1)

C9_NotNullAndPrimaryKey ==
  (pc = "columns" /\ j > 1) =>
    LET f == Tables[i].Fields[j - 1]
        line == LastLine(buf)
    IN /\ line[1] = "  " \o f.Name \o " " \o f.T
       /\ Has(line, " not null") <=> (~f.Nullable /\ ~f.PK)
       /\ Has(line, " primary key") <=> f.PK
       /\ \A x, y \in 2..Len(line) :
             line[x] = " not null" /\ line[y] = " primary key" => x < y

\* A primary key column was rendered with "primary key" and no "not null".
C9_Witness ==
  /\ pc = "columns"
  /\ j > 1
  /\ Tables[i].Fields[j - 1].PK
  /\ Has(LastLine(buf), " primary key")
  /\ ~Has(LastLine(buf), " not null")

====
